---- MODULE Spec2Model ----
(***************************************************************************)
(* Sequence Bloom Tree of src/sbt.py with the driver of src/build-sbt.py.  *)
(*                                                                         *)
(* Objects live in a heap: a sequence of records indexed by object id.     *)
(* The root Node is object 1.  A Nodegraph (khmer Bloom filter) is a       *)
(* record of its geometry and, per table, the set of bit positions set.    *)
(***************************************************************************)
EXTENDS Integers, Sequences, FiniteSets, TLC

VARIABLES
    factory,    \* GraphFactory: [ksize, tablesizes]
    heap,       \* objects of the tree under construction, by id
    n_nodes,    \* Node.n_nodes, the class-wide counter
    calls,      \* history, per object id: add_node calls that attached / pushed down
    result,     \* what the last completed find call returned
    finders,    \* per query thread: its position inside a find call
    files,      \* the file system: filter blobs and json documents, by file name
    saved,      \* how the last save_sbt call ended, and the tree it was given
    loaded,     \* how the last load_sbt call ended, and the tree it returned
    verdict     \* what the last call of a predicate or of filter_distance returned

vars == <<factory, heap, n_nodes, calls, result, finders, files, saved, loaded, verdict>>

(* ------------------------------ bounds -------------------------------- *)

(* leaves added to the root *)
MaxLeaves == 5

(* leaves added under SpecPersist, and the values Node.n_nodes may take *)
MaxSaved == 3
MaxCounter == 8

(* ---------------------------- Nodegraph ------------------------------- *)

Root == 1

Code(c) == CASE c = "A" -> 0 [] c = "C" -> 1 [] c = "G" -> 2 [] c = "T" -> 3

RECURSIVE KmerHash(_)
KmerHash(kmer) ==
    IF kmer = <<>> THEN 0
    ELSE 4 * KmerHash(SubSeq(kmer, 1, Len(kmer) - 1)) + Code(kmer[Len(kmer)])

create_nodegraph(f) ==
    [ksize |-> f.ksize,
     tablesizes |-> f.tablesizes,
     tables |-> [i \in 1..Len(f.tablesizes) |-> {}]]

GraphCount(g, kmer) ==
    [g EXCEPT !.tables =
        [i \in DOMAIN g.tables |->
            g.tables[i] \cup {KmerHash(kmer) % g.tablesizes[i]}]]

GraphGet(g, kmer) ==
    \A i \in DOMAIN g.tables : (KmerHash(kmer) % g.tablesizes[i]) \in g.tables[i]

GraphUpdate(g, other) ==
    [g EXCEPT !.tables = [i \in DOMAIN g.tables |-> g.tables[i] \cup other.tables[i]]]

RECURSIVE CountAll(_, _)
CountAll(g, kmers) ==
    IF kmers = {} THEN g
    ELSE LET k == CHOOSE x \in kmers : TRUE
         IN  CountAll(GraphCount(g, k), kmers \ {k})

Bits(g) == UNION {{<<i, b>> : b \in g.tables[i]} : i \in DOMAIN g.tables}

(* ------------------------------ objects ------------------------------- *)

NewNode(st, f) ==
    [st EXCEPT
        !.heap = Append(@, [type |-> "Node",
                            name |-> "internal." \o ToString(st.n_nodes),
                            graph |-> create_nodegraph(f),
                            children |-> 0,
                            subnodes |-> <<>>]),
        !.n_nodes = @ + 1,
        !.calls = Append(@, [direct |-> 0, push |-> 0])]

NewLeaf(st, metadata, name, nodegraph) ==
    [st EXCEPT
        !.heap = Append(@, [type |-> "Leaf",
                            metadata |-> metadata,
                            name |-> name,
                            graph |-> nodegraph,
                            children |-> 0]),
        !.calls = Append(@, [direct |-> 0, push |-> 0])]

IsNode(h, id) == h[id].type = "Node"
IsLeaf(h, id) == h[id].type = "Leaf"

NodeIds(h) == {id \in DOMAIN h : IsNode(h, id)}
LeafIds(h) == {id \in DOMAIN h : IsLeaf(h, id)}

(* list.remove(x): drops the first element equal to x *)
RECURSIVE ListRemove(_, _)
ListRemove(s, x) ==
    IF s = <<>> THEN <<>>
    ELSE IF Head(s) = x THEN Tail(s)
    ELSE <<Head(s)>> \o ListRemove(Tail(s), x)

(* ------------------------------ add_node ------------------------------ *)

attach_nocount(st, self, node) ==
    [st EXCEPT
        !.heap[self].subnodes = Append(@, node),
        !.heap[self].graph = GraphUpdate(@, st.heap[node].graph),
        !.calls[self].direct = @ + 1]

attach_childcount(st, self, node) ==
    [st EXCEPT
        !.heap[self].subnodes = Append(@, node),
        !.heap[self].graph = GraphUpdate(@, st.heap[node].graph),
        !.heap[node].children = @ + 1,
        !.calls[self].direct = @ + 1]

attach_weighted(st, self, node) ==
    [st EXCEPT
        !.heap[self].subnodes = Append(@, node),
        !.heap[self].graph = GraphUpdate(@, st.heap[node].graph),
        !.heap[self].children = @ + st.heap[node].children + 1,
        !.calls[self].direct = @ + 1]

attach(st, self, node) ==
    [st EXCEPT
        !.heap[self].subnodes = Append(@, node),
        !.heap[self].graph = GraphUpdate(@, st.heap[node].graph),
        !.heap[self].children = @ + 1,
        !.calls[self].direct = @ + 1]

choose_subn_larger(h, self, pick) ==
    LET sub == h[self].subnodes
    IN  IF h[sub[1]].children = h[sub[2]].children THEN sub[pick]
        ELSE IF h[sub[1]].children < h[sub[2]].children THEN sub[2]
        ELSE sub[1]

(* pick is the outcome of random.choice over the two subnodes: 1 or 2 *)
choose_subn(h, self, pick) ==
    LET sub == h[self].subnodes
    IN  IF h[sub[1]].children = h[sub[2]].children THEN sub[pick]
        ELSE IF h[sub[1]].children < h[sub[2]].children THEN sub[1]
        ELSE sub[2]

detach_keep(st, self, subn) == st

detach(st, self, subn) ==
    [st EXCEPT !.heap[self].subnodes = ListRemove(@, subn)]

adopt_noupdate(st, self, n, node) ==
    [st EXCEPT
        !.heap[self].subnodes = Append(@, n),
        !.heap[self].children = @ + 2,
        !.calls[self].push = @ + 1]

adopt_plusone(st, self, n, node) ==
    [st EXCEPT
        !.heap[self].subnodes = Append(@, n),
        !.heap[self].graph = GraphUpdate(@, st.heap[node].graph),
        !.heap[self].children = @ + 1,
        !.calls[self].push = @ + 1]

adopt_front(st, self, n, node) ==
    [st EXCEPT
        !.heap[self].subnodes = <<n>> \o @,
        !.heap[self].graph = GraphUpdate(@, st.heap[node].graph),
        !.heap[self].children = @ + 2,
        !.calls[self].push = @ + 1]

adopt(st, self, n, node) ==
    [st EXCEPT
        !.heap[self].subnodes = Append(@, n),
        !.heap[self].graph = GraphUpdate(@, st.heap[node].graph),
        !.heap[self].children = @ + 2,
        !.calls[self].push = @ + 1]

has_room_le(h, self) == Len(h[self].subnodes) <= 2

has_room(h, self) == Len(h[self].subnodes) < 2

RECURSIVE add_node(_, _, _, _, _)
add_node(st, f, self, node, pick) ==
    IF has_room(st.heap, self)
    THEN attach(st, self, node)
    ELSE LET subn == choose_subn(st.heap, self, pick)
             s1 == detach(st, self, subn)
             s2 == NewNode(s1, f)
             n  == Len(s2.heap)
             s3 == add_node(s2, f, n, node, pick)
             s4 == add_node(s3, f, n, subn, pick)
         IN  adopt(s4, self, n, node)

(* -------------------------------- find -------------------------------- *)

iterkmers(seq, K) == [start \in 1..(Len(seq) - K + 1) |-> SubSeq(seq, start, start + K - 1)]

RECURSIVE SumPresence(_, _)
SumPresence(g, kmers) ==
    IF kmers = <<>> THEN 0
    ELSE (IF GraphGet(g, Head(kmers)) THEN 1 ELSE 0) + SumPresence(g, Tail(kmers))

(* int(threshold * n) for a threshold num/den >= 0: truncation toward zero of
   the exact product, which is what the float product truncates to for the
   thresholds used here *)
IntOfProduct(num, den, n) ==
    IF n >= 0 THEN (num * n) \div den ELSE 0 - ((num * (0 - n)) \div den)

search_kmer(obj, seq) == GraphGet(obj.graph, seq)

NKmers_len(seq, K) == Len(seq)

NKmers(seq, K) == Len(seq) - K + 1

(* build-sbt.py: the k-mer length is the filter's *)
search_sequence(obj, seq, num, den) ==
    LET K == obj.graph.ksize
    IN  SumPresence(obj.graph, iterkmers(seq, K)) >= IntOfProduct(num, den, NKmers(seq, K))

(* sbt.py, test_longer_search: the k-mer length is the test's ksize *)
search_transcript(obj, seq, num, den, ksize) ==
    SumPresence(obj.graph, iterkmers(seq, ksize)) >= IntOfProduct(num, den, NKmers(seq, ksize))

(* a monotone predicate given by its minimal bit sets *)
search_monotone(obj, mins) == \E m \in mins : m \subseteq Bits(obj.graph)

search_fn(obj, q) ==
    CASE q.fn = "search_kmer" -> search_kmer(obj, q.seq)
      [] q.fn = "search_sequence" -> search_sequence(obj, q.seq, q.num, q.den)
      [] q.fn = "search_transcript" ->
            search_transcript(obj, q.seq, q.num, q.den, q.ksize)
      [] q.fn = "monotone" -> search_monotone(obj, q.mins)

Leaf_find(h, id, q) == IF search_fn(h[id], q) THEN <<id>> ELSE <<>>

RECURSIVE find(_, _, _)
RECURSIVE find_subnodes(_, _, _)

Node_find_inverted(h, id, q) ==
    IF search_fn(h[id], q) THEN <<>> ELSE find_subnodes(h, h[id].subnodes, q)

Node_find(h, id, q) ==
    IF ~search_fn(h[id], q) THEN <<>> ELSE find_subnodes(h, h[id].subnodes, q)

find_subnodes_last(h, subs, q) ==
    IF subs = <<>> THEN <<>> ELSE find(h, subs[Len(subs)], q)

find_subnodes(h, subs, q) ==
    IF subs = <<>> THEN <<>>
    ELSE find(h, Head(subs), q) \o find_subnodes(h, Tail(subs), q)

find(h, id, q) == IF IsLeaf(h, id) THEN Leaf_find(h, id, q) ELSE Node_find(h, id, q)

Range(s) == {s[i] : i \in DOMAIN s}

Visit_prune(h, id, q) ==
    IF IsNode(h, id) /\ ~search_fn(h[id], q) THEN [h EXCEPT ![id].subnodes = <<>>] ELSE h

(* what find assigns in the object it visits: nothing *)
Visit(h, id, q) == h

(* the objects one find call visits, in order *)
RECURSIVE Visited(_, _, _)
RECURSIVE VisitedAll(_, _, _)
Visited(h, id, q) ==
    <<id>> \o (IF IsNode(h, id) /\ search_fn(h[id], q)
                THEN VisitedAll(h, h[id].subnodes, q) ELSE <<>>)
VisitedAll(h, subs, q) ==
    IF subs = <<>> THEN <<>>
    ELSE Visited(h, Head(subs), q) \o VisitedAll(h, Tail(subs), q)

RECURSIVE VisitEach(_, _, _)
VisitEach(h, ids, q) ==
    IF ids = <<>> THEN h ELSE VisitEach(Visit(h, Head(ids), q), Tail(ids), q)

(* the brute-force scan: every leaf on which the predicate holds *)
search_in_list(h, q) == {l \in LeafIds(h) : search_fn(h[l], q)}

(* ---------------------------- save / load ---------------------------- *)

WriteFile(fs, fn, content) ==
    [f \in DOMAIN fs \cup {fn} |-> IF f = fn THEN content ELSE fs[f]]

node_fn(node, tag) == tag \o "." \o node.name \o ".sbt"

(* [ok, dict, blobs]: ok is FALSE when a subnodes index is out of range *)
RECURSIVE save_node(_, _, _, _)
save_node(h, id, blobs, tag) ==
    LET node == h[id]
        filename == node_fn(node, tag)
        b1 == WriteFile(blobs, filename, node.graph)
        structure == [filename |-> filename, name |-> node.name, children |-> node.children]
    IN  IF node.type = "Leaf"
        THEN [ok |-> TRUE, blobs |-> b1,
              dict |-> [filename |-> filename, name |-> node.name,
                        children |-> node.children, metadata |-> node.metadata]]
        ELSE IF Len(node.subnodes) < 1
        THEN [ok |-> FALSE, blobs |-> b1, dict |-> structure]
        ELSE LET l == save_node(h, node.subnodes[1], b1, tag)
             IN  IF ~l.ok \/ Len(node.subnodes) < 2
                 THEN [ok |-> FALSE, blobs |-> l.blobs, dict |-> structure]
                 ELSE LET r == save_node(h, node.subnodes[2], l.blobs, tag)
                      IN  [ok |-> r.ok, blobs |-> r.blobs,
                           dict |-> [filename |-> filename, name |-> node.name,
                                     children |-> node.children,
                                     left |-> l.dict, right |-> r.dict]]

SbtSize(h, root) == h[root].children + 1

save_sbt(h, root, tag, fs) ==
    LET r == save_node(h, root, fs.blobs, tag)
        fn == tag \o ".sbt.json"
    IN  IF r.ok
        THEN [status |-> "ok", fn |-> fn,
              files |-> [blobs |-> r.blobs,
                         json |-> WriteFile(fs.json, fn,
                                            [root |-> r.dict, size |-> SbtSize(h, root)])]]
        ELSE [status |-> "IndexError", fn |-> fn,
              files |-> [blobs |-> r.blobs, json |-> fs.json]]

restore_name_only(st, node, node_dict) ==
    [st EXCEPT !.heap[node].name = node_dict.name]

(* load_node, the two assignments after both subtrees are loaded *)
restore(st, node, node_dict) ==
    [st EXCEPT !.heap[node].children = node_dict.children,
               !.heap[node].name = node_dict.name]

(* [err, st, id]: err is "" or the exception raised; st.heap holds the objects built *)
RECURSIVE load_node(_, _, _, _)
load_node(st, node_dict, f, blobs) ==
    IF "filename" \notin DOMAIN node_dict
    THEN [err |-> "KeyError", st |-> st, id |-> 0]
    ELSE IF node_dict.filename \notin DOMAIN blobs
    THEN [err |-> "IOError", st |-> st, id |-> 0]
    ELSE
    LET graph == blobs[node_dict.filename]
    IN  IF "metadata" \in DOMAIN node_dict
        THEN IF "name" \notin DOMAIN node_dict
             THEN [err |-> "KeyError", st |-> st, id |-> 0]
             ELSE LET s1 == NewLeaf(st, node_dict.metadata, node_dict.name, graph)
                  IN  [err |-> "", st |-> s1, id |-> Len(s1.heap)]
        ELSE LET s1 == NewNode(st, f)
                 node == Len(s1.heap)
                 s2 == [s1 EXCEPT !.heap[node].graph = graph]
             IN  IF "left" \notin DOMAIN node_dict
                 THEN [err |-> "KeyError", st |-> s2, id |-> 0]
                 ELSE
                 LET l == load_node(s2, node_dict.left, f, blobs)
                     s3 == [l.st EXCEPT !.heap[node].subnodes = Append(@, l.id)]
                 IN  IF l.err # "" THEN l
                     ELSE IF "right" \notin DOMAIN node_dict
                     THEN [err |-> "KeyError", st |-> s3, id |-> 0]
                     ELSE
                     LET r == load_node(s3, node_dict.right, f, blobs)
                         s4 == [r.st EXCEPT !.heap[node].subnodes = Append(@, r.id)]
                     IN  IF r.err # "" THEN r
                         ELSE IF {"children", "name"} \subseteq DOMAIN node_dict
                         THEN [err |-> "", st |-> restore(s4, node, node_dict), id |-> node]
                         ELSE [err |-> "KeyError", st |-> s4, id |-> 0]

extract_nodegraph_info(g) == [ksize |-> g.ksize, tablesizes |-> g.tablesizes]

load_sbt(sbt_fn, fs, counter) ==
    LET st0 == [heap |-> <<>>, n_nodes |-> counter, calls |-> <<>>]
    IN  IF sbt_fn \notin DOMAIN fs.json
        THEN [err |-> "IOError", st |-> st0, id |-> 0]
        ELSE LET sbt_dict == fs.json[sbt_fn]
             IN  IF "root" \notin DOMAIN sbt_dict \/ "filename" \notin DOMAIN sbt_dict.root
                 THEN [err |-> "KeyError", st |-> st0, id |-> 0]
                 ELSE IF sbt_dict.root.filename \notin DOMAIN fs.blobs
                 THEN [err |-> "IOError", st |-> st0, id |-> 0]
                 ELSE load_node(st0, sbt_dict.root,
                                extract_nodegraph_info(fs.blobs[sbt_dict.root.filename]),
                                fs.blobs)

(* the names and metadata of the leaves a find call returned *)
Described(h, ids) ==
    [i \in DOMAIN ids |-> [metadata |-> h[ids[i]].metadata, name |-> h[ids[i]].name]]

(* --------------------------- inputs of Spec --------------------------- *)

AA == <<"A", "A">>
AC == <<"A", "C">>
CA == <<"C", "A">>
CC == <<"C", "C">>

GenFactory == [ksize |-> 2, tablesizes |-> <<3>>]

LeafInputs ==
    { [metadata |-> "a", name |-> "x", kmers |-> {AA, AC}],
      [metadata |-> "b", name |-> "x", kmers |-> {CA}],
      [metadata |-> "c", name |-> "internal.1", kmers |-> {AC, CC}] }

Queries ==
    { [fn |-> "search_kmer", seq |-> CC],
      [fn |-> "search_sequence", seq |-> <<"A", "A", "C">>, num |-> 1, den |-> 1] }

(* ------------------------------ actions ------------------------------- *)

Threads == {"t1", "t2"}

NoResult == [query |-> [fn |-> "none"], out |-> <<>>, scan |-> {}]
Idle == [pc |-> "idle"]
NoFiles == [blobs |-> <<>>, json |-> <<>>]
NotCalled == [status |-> "none"]
NoVerdict == [kind |-> "none"]

Init ==
    /\ factory = GenFactory
    /\ LET st == NewNode([heap |-> <<>>, n_nodes |-> 0, calls |-> <<>>], GenFactory)
       IN  heap = st.heap /\ n_nodes = st.n_nodes /\ calls = st.calls
    /\ result = NoResult
    /\ finders = [t \in Threads |-> Idle]
    /\ files = NoFiles
    /\ saved = NotCalled
    /\ loaded = NotCalled
    /\ verdict = NoVerdict

(* build-sbt.py main, one turn of the loop over the samples; main adds every
   sample before its first find, so no find call is running *)
AddLeafUpTo(max, inp, pick) ==
    /\ Cardinality(LeafIds(heap)) < max
    /\ \A t \in Threads : finders[t].pc = "idle"
    /\ LET st0 == [heap |-> heap, n_nodes |-> n_nodes, calls |-> calls]
           g   == CountAll(create_nodegraph(factory), inp.kmers)
           st1 == NewLeaf(st0, inp.metadata, inp.name, g)
           st2 == add_node(st1, factory, Root, Len(st1.heap), pick)
       IN  heap' = st2.heap /\ n_nodes' = st2.n_nodes /\ calls' = st2.calls
    /\ UNCHANGED <<factory, result, finders, files, saved, loaded, verdict>>

AddLeaf(inp, pick) == AddLeafUpTo(MaxLeaves, inp, pick)

(* test_simple, line 300: the find call next to the scan over the leaves *)
Find(q) ==
    /\ result' = [query |-> q, out |-> find(heap, Root, q),
                  scan |-> search_in_list(heap, q)]
    /\ heap' = VisitEach(heap, Visited(heap, Root, q), q)
    /\ UNCHANGED <<factory, n_nodes, calls, finders, files, saved, loaded, verdict>>

Next ==
    \/ \E inp \in LeafInputs, pick \in {1, 2} : AddLeaf(inp, pick)
    \/ \E q \in Queries : Find(q)

Spec == Init /\ [][Next]_vars

(* ----------------------- save and load, SpecPersist -------------------- *)

Tags == {"run"}

RECURSIVE InternalRecords(_)
InternalRecords(d) ==
    IF "left" \in DOMAIN d /\ "right" \in DOMAIN d
    THEN 1 + InternalRecords(d.left) + InternalRecords(d.right)
    ELSE IF "metadata" \in DOMAIN d THEN 0 ELSE 1

SaveSbt(tag) ==
    /\ LET r == save_sbt(heap, Root, tag, files)
       IN  /\ files' = r.files
           /\ saved' = [status |-> r.status, fn |-> r.fn, tree |-> heap]
    /\ UNCHANGED <<factory, heap, n_nodes, calls, result, finders, loaded, verdict>>

LoadSbt(sbt_fn) ==
    /\ sbt_fn \in DOMAIN files.json =>
          n_nodes + InternalRecords(files.json[sbt_fn].root) <= MaxCounter
    /\ LET r == load_sbt(sbt_fn, files, n_nodes)
       IN  /\ n_nodes' = r.st.n_nodes
           /\ loaded' = IF r.err = ""
                        THEN [status |-> "ok", heap |-> r.st.heap, root |-> r.id,
                              src |-> saved.tree, doc |-> files.json[sbt_fn]]
                        ELSE [status |-> r.err]
    /\ UNCHANGED <<factory, heap, calls, result, finders, files, saved, verdict>>

NextPersist ==
    \/ \E inp \in LeafInputs, pick \in {1, 2} : AddLeafUpTo(MaxSaved, inp, pick)
    \/ \E tag \in Tags : SaveSbt(tag)
    \/ \E tag \in Tags : LoadSbt(tag \o ".sbt.json")

SpecPersist == Init /\ [][NextPersist]_vars

(* ------------------ documents edited on disk, SpecDamage --------------- *)

(* leaves of the trees whose documents are edited *)
MaxDamaged == 2

RemoveField(d, k) == [f \in DOMAIN d \ {k} |-> d[f]]

AddField(d, k, v) == [f \in DOMAIN d \cup {k} |-> IF f = k THEN v ELSE d[f]]

(* the records of a document, each by the left/right steps leading to it *)
RECURSIVE Paths(_)
Paths(d) ==
    {<<>>}
    \cup (IF "left" \in DOMAIN d THEN {<<"left">> \o p : p \in Paths(d.left)} ELSE {})
    \cup (IF "right" \in DOMAIN d THEN {<<"right">> \o p : p \in Paths(d.right)} ELSE {})

RECURSIVE RecordAt(_, _)
RecordAt(d, path) == IF path = <<>> THEN d ELSE RecordAt(d[Head(path)], Tail(path))

(* the document with one record changed: a field dropped, or a left/right
   entry added to it *)
RECURSIVE EditRecord(_, _, _)
EditRecord(d, path, change) ==
    IF path # <<>>
    THEN [d EXCEPT ![Head(path)] = EditRecord(@, Tail(path), change)]
    ELSE IF change.op = "drop" THEN RemoveField(d, change.field)
    ELSE AddField(d, change.field, d)

Changes(d) ==
    {[op |-> "drop", field |-> k] : k \in DOMAIN d \ {"metadata"}}
    \cup {[op |-> "add", field |-> k] : k \in {"left", "right"} \ DOMAIN d}

(* the document shape save_node writes: filename, name and children in every
   record, metadata and no left/right in a leaf record, left and right in an
   internal record *)
RECURSIVE WellFormed(_)
WellFormed(d) ==
    /\ {"filename", "name", "children"} \subseteq DOMAIN d
    /\ IF "metadata" \in DOMAIN d
       THEN "left" \notin DOMAIN d /\ "right" \notin DOMAIN d
       ELSE /\ {"left", "right"} \subseteq DOMAIN d
            /\ WellFormed(d.left)
            /\ WellFormed(d.right)

(* another program, or an editor, rewrites the document between save and load *)
Damage(sbt_fn, path, change) ==
    /\ sbt_fn \in DOMAIN files.json
    /\ WellFormed(files.json[sbt_fn].root)
    /\ path \in Paths(files.json[sbt_fn].root)
    /\ change \in Changes(RecordAt(files.json[sbt_fn].root, path))
    /\ files' = [files EXCEPT !.json[sbt_fn].root = EditRecord(@, path, change)]
    /\ UNCHANGED <<factory, heap, n_nodes, calls, result, finders, saved, loaded, verdict>>

Steps == {"left", "right"}

DamagePaths == UNION {[1..n -> Steps] : n \in 0..(MaxDamaged - 1)}

DamageChanges ==
    {[op |-> o, field |-> k] :
        o \in {"drop", "add"}, k \in {"filename", "name", "children", "left", "right"}}

NextDamage ==
    \/ \E inp \in LeafInputs, pick \in {1, 2} : AddLeafUpTo(MaxDamaged, inp, pick)
    \/ \E tag \in Tags : SaveSbt(tag)
    \/ \E tag \in Tags, path \in DamagePaths, change \in DamageChanges :
          Damage(tag \o ".sbt.json", path, change)
    \/ \E tag \in Tags : LoadSbt(tag \o ".sbt.json")

SpecDamage == Init /\ [][NextDamage]_vars

(* -------------------- the five datasets, SpecTest ---------------------- *)

Kmer(a, b, c, d, e) == <<a, b, c, d, e>>
AAAAA == Kmer("A", "A", "A", "A", "A")
AAAAT == Kmer("A", "A", "A", "A", "T")
AAAAC == Kmer("A", "A", "A", "A", "C")
AAAAG == Kmer("A", "A", "A", "A", "G")
CAAAA == Kmer("C", "A", "A", "A", "A")
GAAAA == Kmer("G", "A", "A", "A", "A")
GAAAAAT == <<"G", "A", "A", "A", "A", "A", "T">>

TestFactory == [ksize |-> 5, tablesizes |-> <<101, 103, 117>>]

TestLeaves ==
    << [metadata |-> "a", name |-> "a", kmers |-> {AAAAA, AAAAT, AAAAC}],
       [metadata |-> "b", name |-> "b", kmers |-> {AAAAA, AAAAT, AAAAG}],
       [metadata |-> "c", name |-> "c", kmers |-> {AAAAA, AAAAT, CAAAA}],
       [metadata |-> "d", name |-> "d", kmers |-> {AAAAA, CAAAA, GAAAA}],
       [metadata |-> "e", name |-> "e", kmers |-> {AAAAA, AAAAT, GAAAA}] >>

TestQuery(seq, num, den) ==
    [fn |-> "search_transcript", seq |-> seq, num |-> num, den |-> den,
     ksize |-> TestFactory.ksize]

Q_AAAAT == TestQuery(AAAAT, 1, 1)
Q_GAAAA == TestQuery(GAAAA, 1, 1)
Q_GAAAAAT == TestQuery(GAAAAAT, 3, 5)

TestQueries ==
    {Q_AAAAT, Q_GAAAA, Q_GAAAAAT, [fn |-> "search_kmer", seq |-> CAAAA]}

InitTest ==
    /\ factory = TestFactory
    /\ LET st == NewNode([heap |-> <<>>, n_nodes |-> 0, calls |-> <<>>], TestFactory)
       IN  heap = st.heap /\ n_nodes = st.n_nodes /\ calls = st.calls
    /\ result = NoResult
    /\ finders = [t \in Threads |-> Idle]
    /\ files = NoFiles
    /\ saved = NotCalled
    /\ loaded = NotCalled
    /\ verdict = NoVerdict

(* test_longer_search, lines 339-343: the next dataset in order *)
AddTestLeaf(pick) ==
    /\ Cardinality(LeafIds(heap)) < Len(TestLeaves)
    /\ AddLeafUpTo(Len(TestLeaves), TestLeaves[Cardinality(LeafIds(heap)) + 1], pick)

(* a find call on the root, one visited object per step *)
FindCall(t, q) ==
    /\ finders[t].pc = "idle"
    /\ finders' = [finders EXCEPT ![t] =
                      [pc |-> "run", query |-> q, stack |-> <<Root>>, x |-> <<>>]]
    /\ UNCHANGED <<factory, heap, n_nodes, calls, result, files, saved, loaded, verdict>>

FindStep(t) ==
    /\ finders[t].pc = "run"
    /\ finders[t].stack # <<>>
    /\ LET id == Head(finders[t].stack)
           rest == Tail(finders[t].stack)
           q == finders[t].query
       IN  /\ finders' = [finders EXCEPT
                  ![t].stack = IF IsNode(heap, id) /\ search_fn(heap[id], q)
                               THEN heap[id].subnodes \o rest ELSE rest,
                  ![t].x = IF IsLeaf(heap, id) THEN @ \o Leaf_find(heap, id, q) ELSE @]
           /\ heap' = Visit(heap, id, q)
    /\ UNCHANGED <<factory, n_nodes, calls, result, files, saved, loaded, verdict>>

FindReturn(t) ==
    /\ finders[t].pc = "run"
    /\ finders[t].stack = <<>>
    /\ result' = [query |-> finders[t].query, out |-> finders[t].x,
                  scan |-> search_in_list(heap, finders[t].query)]
    /\ finders' = [finders EXCEPT ![t] = Idle]
    /\ UNCHANGED <<factory, heap, n_nodes, calls, files, saved, loaded, verdict>>

NextTest ==
    \/ \E pick \in {1, 2} : AddTestLeaf(pick)
    \/ \E t \in Threads, q \in TestQueries : FindCall(t, q)
    \/ \E t \in Threads : FindStep(t)
    \/ \E t \in Threads : FindReturn(t)

SpecTest == InitTest /\ [][NextTest]_vars

(* ------------- predicates and filter_distance, SpecFn ----------------- *)

(* samples drawn per table by filter_distance *)
MaxSamples == 2

(* the k-mer length a sequence-threshold predicate cuts the query with *)
QueryK(obj, q) == IF q.fn = "search_sequence" THEN obj.graph.ksize ELSE q.ksize

Thresholds == {<<0, 1>>, <<1, 2>>, <<3, 5>>, <<1, 1>>}

Sequences == {<<>>, <<"A">>, <<"A", "A", "C", "C">>}

SeqQueries ==
    {[fn |-> "search_sequence", seq |-> sq, num |-> th[1], den |-> th[2]] :
        sq \in Sequences, th \in Thresholds}
    \cup
    {[fn |-> "search_transcript", seq |-> sq, num |-> th[1], den |-> th[2],
      ksize |-> GenFactory.ksize] : sq \in Sequences, th \in Thresholds}

(* Nodegraph.get_raw_tables: per table its bytes, tablesize / 8 + 1 of them,
   bit j of byte k being position 8 * k + j of the table *)
RECURSIVE ByteOf(_, _, _)
ByteOf(bits, k, j) ==
    IF j > 7 THEN 0
    ELSE (IF (8 * k + j) \in bits THEN 2 ^ j ELSE 0) + ByteOf(bits, k, j + 1)

get_raw_tables(g) ==
    [i \in DOMAIN g.tables |->
        [k \in 1..(g.tablesizes[i] \div 8 + 1) |-> ByteOf(g.tables[i], k - 1, 0)]]

(* sum(map(int, [not bool((a[i]>>j)&1) ^ bool((b[i]>>j)&1) for j in range(8)])) *)
Agree(x, y) ==
    Cardinality({j \in 0..7 : ((x \div (2 ^ j)) % 2) = ((y \div (2 ^ j)) % 2)})

Min(x, y) == IF x <= y THEN x ELSE y

RECURSIVE SumAgree(_, _, _, _)
SumAgree(a, b, idx, s) ==
    IF s > Len(idx) THEN 0
    ELSE Agree(a[idx[s] + 1], b[idx[s] + 1]) + SumAgree(a, b, idx, s + 1)

RECURSIVE SumTables(_, _, _, _)
SumTables(A, B, draws, t) ==
    IF t > Min(Len(A), Len(B)) THEN 0
    ELSE SumAgree(A[t], B[t], draws[t], 1) + SumTables(A, B, draws, t + 1)

(* draws[t][s] is the value randint(0, len(a)) returned for sample s of table t;
   the value returned is num / den *)
filter_distance(filter_a, filter_b, n, draws) ==
    LET A == get_raw_tables(filter_a.graph)
        B == get_raw_tables(filter_b.graph)
    IN  IF \E t \in 1..Min(Len(A), Len(B)) : \E s \in 1..n :
              draws[t][s] >= Len(A[t]) \/ draws[t][s] >= Len(B[t])
        THEN [status |-> "IndexError"]
        ELSE [status |-> "ok", num |-> SumTables(A, B, draws, 1),
              den |-> 8 * Len(A) * n]

(* every outcome of the n calls randint(0, len(a)) per table: both ends included *)
Draws(filter_a, n) ==
    LET A == get_raw_tables(filter_a.graph)
        top == CHOOSE m \in {Len(A[t]) : t \in DOMAIN A} :
                   \A t \in DOMAIN A : Len(A[t]) <= m
    IN  {d \in [DOMAIN A -> [1..n -> 0..top]] :
            \A t \in DOMAIN A : \A s \in 1..n : d[t][s] <= Len(A[t])}

(* one evaluation of a sequence-threshold predicate on one object, as find
   makes it *)
Search(id, q) ==
    /\ LET K == QueryK(heap[id], q)
       IN  verdict' = [kind |-> "search", node |-> id,
                       n |-> NKmers(q.seq, K),
                       count |-> SumPresence(heap[id].graph, iterkmers(q.seq, K)),
                       num |-> q.num, den |-> q.den,
                       match |-> search_fn(heap[id], q)]
    /\ UNCHANGED <<factory, heap, n_nodes, calls, result, finders, files, saved, loaded>>

FilterDistance(a, b, n, draws) ==
    /\ LET r == filter_distance(heap[a], heap[b], n, draws)
       IN  verdict' = [kind |-> "filter_distance",
                       inrange |-> \A t \in DOMAIN draws : \A s \in 1..n :
                                      draws[t][s] < Len(get_raw_tables(heap[a].graph)[t]),
                       r |-> r]
    /\ UNCHANGED <<factory, heap, n_nodes, calls, result, finders, files, saved, loaded>>

NextFn ==
    \/ \E inp \in LeafInputs, pick \in {1, 2} : AddLeafUpTo(MaxSaved, inp, pick)
    \/ \E id \in DOMAIN heap, q \in SeqQueries : Search(id, q)
    \/ \E a \in DOMAIN heap, b \in DOMAIN heap, n \in 1..MaxSamples :
          \E draws \in Draws(heap[a], n) : FilterDistance(a, b, n, draws)

SpecFn == Init /\ [][NextFn]_vars

(* ------------------------- shape of the tree -------------------------- *)

Subnodes(h, id) == IF IsNode(h, id) THEN h[id].subnodes ELSE <<>>

(* the objects met walking down from id, in visiting order, with repeats *)
RECURSIVE Walk(_, _)
RECURSIVE WalkAll(_, _)
Walk(h, id) == <<id>> \o WalkAll(h, Subnodes(h, id))
WalkAll(h, subs) ==
    IF subs = <<>> THEN <<>> ELSE Walk(h, Head(subs)) \o WalkAll(h, Tail(subs))

Reach(h) == Range(Walk(h, Root))

LeavesBelow(h, id) == {l \in Range(Walk(h, id)) : IsLeaf(h, l)}

UnionOfLeaves(h, id) == UNION {Bits(h[l].graph) : l \in LeavesBelow(h, id)}

Parents(h, id) == {p \in NodeIds(h) : id \in Range(h[p].subnodes)}

(* every monotone predicate on a filter of GenFactory: one per antichain *)
GenBits == Bits([tables |-> [i \in 1..Len(GenFactory.tablesizes) |->
                                0..(GenFactory.tablesizes[i] - 1)]])

Antichains ==
    {A \in SUBSET SUBSET GenBits : \A m1, m2 \in A : m1 \subseteq m2 => m1 = m2}

MonotoneQueries == {[fn |-> "monotone", mins |-> A] : A \in Antichains}

(* ------------------------------- claims ------------------------------- *)

(* C1: on every tree built by add_node calls of leaves, under every tie-break,
   and for every monotone predicate, find returns exactly the leaves on which
   the predicate holds, the result of the brute-force scan. *)
C1_FindEqualsScan ==
    /\ \A q \in MonotoneQueries \cup Queries :
          Range(find(heap, Root, q)) = search_in_list(heap, q)
    /\ result.query.fn # "none" => Range(result.out) = result.scan

C1_Witness ==
    /\ result.query.fn # "none"
    /\ result.out = find(heap, Root, result.query)
    /\ result.out # <<>>
    /\ Range(result.out) # LeafIds(heap)
    /\ \E n \in NodeIds(heap) : ~search_fn(heap[n], result.query)

(* C2: after every add_node call the aggregated filter of every TreeNode is
   the union of the filters of the leaves below it. *)
C2_AggregateIsUnion ==
    \A n \in NodeIds(heap) : Bits(heap[n].graph) = UnionOfLeaves(heap, n)

C2_Witness ==
    /\ calls[Root].push >= 3
    /\ \E n \in NodeIds(heap) \ {Root} : \E c \in Range(heap[n].subnodes) :
          /\ IsNode(heap, c)
          /\ Bits(heap[c].graph) # {}
          /\ Bits(heap[c].graph) # Bits(heap[n].graph)

(* C4: the size save_sbt records, root.children + 1, is the number of nodes
   of the tree, TreeNodes and Leaves, root included. *)
C4_SizeIsNodeCount == SbtSize(heap, Root) = Cardinality(Reach(heap))

C4_Witness == Cardinality(LeafIds(heap)) >= 4 /\ SbtSize(heap, Root) >= 7

(* C5: the weight of a TreeNode never decreases and is the number of add_node
   calls on it that attached directly plus twice those that pushed down. *)
C5_Weight ==
    /\ [](\A n \in NodeIds(heap) :
            heap[n].children = calls[n].direct + 2 * calls[n].push)
    /\ [][\A n \in NodeIds(heap) : heap'[n].children >= heap[n].children]_vars

C5_Witness ==
    /\ calls[Root].direct = 2 /\ calls[Root].push >= 2
    /\ \E n \in NodeIds(heap) \ {Root} : calls[n].direct = 2 /\ heap[n].children = 2

(* C6: after every add_node call every TreeNode has at most two children. *)
C6_AtMostTwo == \A n \in NodeIds(heap) : Len(heap[n].subnodes) <= 2

C6_Witness == Len(heap[Root].subnodes) = 2 /\ calls[Root].push >= 2

(* C7: the nodes under the root form a tree that only grows: no node has two
   parents, every object ever created is under the root exactly once, and what
   was under the root stays under it. *)
IsTree(h) ==
    /\ \A id \in DOMAIN h : Cardinality(Parents(h, id)) = (IF id = Root THEN 0 ELSE 1)
    /\ Len(Walk(h, Root)) = Cardinality(Reach(h))
    /\ Reach(h) = DOMAIN h

C7_TreeOnlyGrows ==
    /\ [](IsTree(heap))
    /\ [][Reach(heap) \subseteq Reach(heap')]_vars

C7_Witness ==
    /\ Cardinality(LeafIds(heap)) = MaxLeaves
    /\ Cardinality(NodeIds(heap)) >= 4

(* C8: no add_node call and no find call changes a Leaf: filter, name and
   metadata stay as created and its weight stays 0, also when it is pushed
   down under a new TreeNode. *)
C8_LeavesImmutable ==
    /\ [](\A l \in LeafIds(heap) : heap[l].children = 0)
    /\ [][\A l \in LeafIds(heap) : heap'[l] = heap[l]]_vars

C8_Witness ==
    /\ result.query.fn # "none"
    /\ \E n \in NodeIds(heap) \ {Root} : \E l \in Range(heap[n].subnodes) :
          IsLeaf(heap, l) /\ Bits(heap[l].graph) # Bits(heap[n].graph)

(* C3: for any tree built by add_node calls on an empty root, the empty root
   and the one-dataset tree included, save_sbt completes and load_sbt of what
   it wrote returns a tree with the same find results for every query. *)
SameFinds(h1, r1, h2, r2) ==
    \A q \in Queries \cup MonotoneQueries :
        Described(h1, find(h1, r1, q)) = Described(h2, find(h2, r2, q))

C3_RoundTrip ==
    /\ saved.status # "none" => saved.status = "ok"
    /\ loaded.status = "ok" => SameFinds(loaded.heap, loaded.root, loaded.src, Root)

(* C9: find leaves the whole tree unchanged, so find calls interleaved with
   each other, with no add_node call running, each return what the same call
   returns when run alone. *)
Finished(t) == finders[t].pc = "run" /\ finders[t].stack = <<>>

C9_FindReadOnly ==
    /\ [](\A t \in Threads :
            Finished(t) => finders[t].x = find(heap, Root, finders[t].query))
    /\ [][finders' # finders => heap' = heap]_vars

C9_Witness ==
    /\ Cardinality(LeafIds(heap)) = Len(TestLeaves)
    /\ Finished("t1") /\ finders["t1"].x # <<>>
    /\ finders["t2"].pc = "run" /\ finders["t2"].stack # <<>> /\ finders["t2"].x # <<>>
    /\ finders["t1"].query # finders["t2"].query
    /\ \E n \in NodeIds(heap) : ~search_fn(heap[n], finders["t1"].query)

(* C10: in the tree of the five datasets a..e added in this order, under every
   tie-break, find at threshold 1.0 returns exactly {a, b, c, e} for AAAAT and
   exactly {d, e} for GAAAA. *)
Metadata(h, ids) == {h[id].metadata : id \in Range(ids)}

TestKmers == {AAAAA, AAAAT, AAAAC, AAAAG, CAAAA, GAAAA}

NoFalsePositives ==
    \A i \in DOMAIN TestLeaves :
        LET l == CHOOSE x \in LeafIds(heap) : heap[x].metadata = TestLeaves[i].metadata
        IN  \A k \in TestKmers : GraphGet(heap[l].graph, k) <=> k \in TestLeaves[i].kmers

AllIdle == \A t \in Threads : finders[t].pc = "idle"

C10_FiveDatasets ==
    Cardinality(LeafIds(heap)) = Len(TestLeaves) =>
        /\ AllIdle => Metadata(heap, find(heap, Root, Q_AAAAT)) = {"a", "b", "c", "e"}
        /\ AllIdle => Metadata(heap, find(heap, Root, Q_GAAAA)) = {"d", "e"}
        /\ \A t \in Threads :
              /\ Finished(t) /\ finders[t].query = Q_AAAAT =>
                    Metadata(heap, finders[t].x) = {"a", "b", "c", "e"}
              /\ Finished(t) /\ finders[t].query = Q_GAAAA =>
                    Metadata(heap, finders[t].x) = {"d", "e"}

C10_Witness ==
    /\ Cardinality(LeafIds(heap)) = Len(TestLeaves)
    /\ NoFalsePositives
    /\ Finished("t1") /\ finders["t1"].query = Q_AAAAT
    /\ Finished("t2") /\ finders["t2"].query = Q_GAAAA
    /\ Len(finders["t1"].x) = 4 /\ Len(finders["t2"].x) = 2

(* C11: in the tree of the five datasets, under every tie-break, find for the
   query GAAAAAT at threshold 0.6 returns all five datasets. *)
C11_AllFive ==
    Cardinality(LeafIds(heap)) = Len(TestLeaves) =>
        /\ AllIdle =>
              Metadata(heap, find(heap, Root, Q_GAAAAAT)) = {"a", "b", "c", "d", "e"}
        /\ \A t \in Threads :
              Finished(t) /\ finders[t].query = Q_GAAAAAT =>
                  Metadata(heap, finders[t].x) = {"a", "b", "c", "d", "e"}

C11_Witness ==
    /\ Cardinality(LeafIds(heap)) = Len(TestLeaves)
    /\ Finished("t1") /\ finders["t1"].query = Q_GAAAAAT
    /\ Len(finders["t1"].x) = 5
    /\ Len(iterkmers(GAAAAAT, TestFactory.ksize)) = 3

(* C12: for every node, every query with at least one k-mer and every
   threshold in [0, 1], the sequence-threshold predicate matches exactly when
   the number of the query's k-mers the filter reports present is at least
   threshold times the number of k-mers. *)
C12_ThresholdExact ==
    verdict.kind = "search" /\ verdict.n >= 1 =>
        (verdict.match <=> verdict.count * verdict.den >= verdict.num * verdict.n)

(* C13: for a query shorter than K the sequence-threshold predicate matches on
   no node at any threshold, and find returns the empty list. *)
ShortQueries == {q \in SeqQueries : Len(q.seq) < GenFactory.ksize}

C13_ShortQueryNoMatch ==
    /\ verdict.kind = "search" /\ verdict.n < 1 => ~verdict.match
    /\ \A q \in ShortQueries : find(heap, Root, q) = <<>>

(* C19: every position filter_distance samples is a valid byte index of the
   table, for every random draw, so the call completes and returns a fraction
   in [0, 1]. *)
C19_SamplesInRange ==
    verdict.kind = "filter_distance" =>
        /\ verdict.inrange
        /\ verdict.r.status = "ok"
        /\ 0 <= verdict.r.num /\ verdict.r.num <= verdict.r.den

(* C14: load_sbt on a structurally inconsistent document, a record missing
   filename, name, children or (internal record) left/right, or a leaf record
   carrying left or right, ends in an error and returns no tree. *)
C14_InconsistentRejected ==
    loaded.status = "ok" => WellFormed(loaded.doc.root)

(* C15: the tree load_sbt returns is isomorphic to the saved one: same shape in
   the same child order, same names and leaf metadata, and every weight equal
   to the value stored in the document. *)
RECURSIVE Iso(_, _, _, _)
Iso(h1, a, h2, b) ==
    /\ h1[a].type = h2[b].type
    /\ h1[a].name = h2[b].name
    /\ h1[a].children = h2[b].children
    /\ IF IsLeaf(h1, a)
       THEN h1[a].metadata = h2[b].metadata
       ELSE /\ Len(h1[a].subnodes) = Len(h2[b].subnodes)
            /\ \A i \in DOMAIN h1[a].subnodes :
                  Iso(h1, h1[a].subnodes[i], h2, h2[b].subnodes[i])

RECURSIVE AsStored(_, _, _)
AsStored(h, id, d) ==
    /\ h[id].children = d.children
    /\ h[id].name = d.name
    /\ IF IsLeaf(h, id)
       THEN "metadata" \in DOMAIN d /\ h[id].metadata = d.metadata
       ELSE /\ "metadata" \notin DOMAIN d
            /\ Len(h[id].subnodes) = 2
            /\ AsStored(h, h[id].subnodes[1], d.left)
            /\ AsStored(h, h[id].subnodes[2], d.right)

C15_LoadedIsomorphic ==
    loaded.status = "ok" =>
        /\ Iso(loaded.heap, loaded.root, loaded.src, Root)
        /\ AsStored(loaded.heap, loaded.root, loaded.doc.root)

C15_Witness ==
    /\ loaded.status = "ok"
    /\ Cardinality(LeafIds(loaded.heap)) = MaxSaved
    /\ Cardinality(NodeIds(loaded.heap)) >= 2
    /\ loaded.heap[loaded.root].children >= 4
    /\ \E n \in NodeIds(loaded.heap) \ {loaded.root} :
          loaded.heap[n].children = 2 /\ loaded.heap[n].name # "internal.0"

(* C16: save_sbt writes one filter blob per node: any two distinct nodes of the
   tree get distinct blob filenames, so after the save every node's blob holds
   that node's filter. *)
C16_OneBlobPerNode ==
    saved.status = "ok" =>
        \A tag \in Tags : saved.fn = tag \o ".sbt.json" =>
            /\ \A a, b \in DOMAIN saved.tree :
                  a # b => node_fn(saved.tree[a], tag) # node_fn(saved.tree[b], tag)
            /\ \A a \in DOMAIN saved.tree :
                  files.blobs[node_fn(saved.tree[a], tag)] = saved.tree[a].graph

(* a push-down at n in this step: the child of n that was detached, the child
   that stayed, and the TreeNode created *)
Pushed(n) == calls'[n].push > calls[n].push

Created(n) == CHOOSE c \in Range(heap'[n].subnodes) : c \notin DOMAIN heap

Stayed(n) == CHOOSE c \in Range(heap[n].subnodes) : c \in Range(heap'[n].subnodes)

Detached(n) == CHOOSE c \in Range(heap[n].subnodes) : c \notin Range(heap'[n].subnodes)

PushShape(n) ==
    /\ Cardinality(Range(heap'[n].subnodes) \ DOMAIN heap) = 1
    /\ Cardinality(Range(heap[n].subnodes) \cap Range(heap'[n].subnodes)) = 1
    /\ Detached(n) \in Range(heap'[Created(n)].subnodes)

Index(s, x) == CHOOSE i \in DOMAIN s : s[i] = x

(* C17: an add_node call on a TreeNode with two children detaches and pushes
   down a child whose weight is at most the other child's: the strictly
   lighter one when the weights differ, either one when they are equal. *)
C17_LighterPushedDown ==
    /\ [](\A n \in NodeIds(heap) : ~has_room(heap, n) =>
            LET sub == heap[n].subnodes
            IN  IF heap[sub[1]].children = heap[sub[2]].children
                THEN {choose_subn(heap, n, pick) : pick \in {1, 2}} = Range(sub)
                ELSE \A pick \in {1, 2} : \A c \in Range(sub) :
                        c # choose_subn(heap, n, pick) =>
                            heap[choose_subn(heap, n, pick)].children < heap[c].children)
    /\ [][\A n \in NodeIds(heap) : Pushed(n) =>
            /\ PushShape(n)
            /\ heap[Detached(n)].children <= heap[Stayed(n)].children]_vars

C17_Witness ==
    /\ calls[Root].push >= 3
    /\ \A c \in Range(heap[Root].subnodes) : IsNode(heap, c) /\ heap[c].children = 2

(* C18, as stated: after a push-down the new TreeNode is at the index of the
   child list the detached child had, and the other child keeps its index. *)
C18_InPlaceOfDetached ==
    [][\A n \in NodeIds(heap) : Pushed(n) =>
          /\ PushShape(n)
          /\ Index(heap'[n].subnodes, Created(n)) = Index(heap[n].subnodes, Detached(n))
          /\ Index(heap'[n].subnodes, Stayed(n)) = Index(heap[n].subnodes, Stayed(n))]_vars

(* C18, amended: after a push-down the new TreeNode is always the last child
   and the child that stayed is the first, whichever index the detached child
   had; the detached child is under the new TreeNode. *)
C18_NewNodeLast ==
    [][\A n \in NodeIds(heap) : Pushed(n) =>
          /\ PushShape(n)
          /\ heap'[n].subnodes = <<Stayed(n), Created(n)>>]_vars

C18_Witness ==
    /\ calls[Root].push >= 2
    /\ LET sub == heap[Root].subnodes
       IN  /\ IsNode(heap, sub[1]) /\ IsNode(heap, sub[2])
           /\ sub[1] < sub[2]
           /\ \E l \in Range(heap[sub[2]].subnodes) : IsLeaf(heap, l) /\ l < sub[1]

(* C20: a push-down only ever happens at the root: every other TreeNode got
   exactly two direct attachments, so it has exactly two children and weight
   exactly 2, however many leaves lie below it. *)
C20_NonRootWeightTwo ==
    \A n \in NodeIds(heap) \ {Root} :
        /\ Len(heap[n].subnodes) = 2
        /\ heap[n].children = 2
        /\ calls[n].push = 0
        /\ calls[n].direct = 2

C20_Witness ==
    \E n \in NodeIds(heap) \ {Root} :
        Cardinality(LeavesBelow(heap, n)) >= 3 /\ heap[n].children = 2

====
